---- MODULE Spec2Model ----
(***************************************************************************)
(* A model of towncrier's build command (src/towncrier/build.py): the      *)
(* click option processing with the _validate_answer callback, the _main   *)
(* wrapper that turns a ConfigError into exit code 1, the __main pipeline  *)
(* (load config, read template, find and split fragments, resolve          *)
(* version/name/date, choose the title mode, render, draft echo or         *)
(* merge/stage/remove) and should_remove_fragment_files.                   *)
(*                                                                         *)
(* Python values: None is the string "None", True is "True", False is      *)
(* "False"; a text that is built by str.format or by the renderer is kept  *)
(* as the tuple of what it was built from, the empty text being <<>>.      *)
(* The collaborators that are imported from other modules (_settings,      *)
(* _builder, _project, _writer, _git) either return or raise.              *)
(***************************************************************************)
EXTENDS Integers, Sequences, FiniteSets, TLC

\* ------------------------------------------------------------------ bounds
\* The largest number of fragment files on disk.
MaxFiles == 2
\* The largest number of invocations of the command in one behaviour.
MaxRuns == 2

\* ------------------------------------------------------------ Python values
None == "None"
True == "True"
False == "False"

\* Python truthiness of the values the model uses (None, False and "" are falsy).
Truthy(v) == v \notin {None, False, ""}

\* The paths of the fragment files that may be on disk, in the order the
\* discovery lists them.
FragmentPaths == <<"1.feature", "2.bugfix", "3.misc", "4.doc">>

Files(n) == [i \in 1..n |-> FragmentPaths[i]]

\* Every list of at most n of the first n fragment paths (for a direct call).
FileLists(n) == UNION {[1..k -> {FragmentPaths[i] : i \in 1..n}] : k \in 0..n}

\* What load_config_from_options can return: the fields of the configuration
\* that build.py reads and that change its control flow.
Configs ==
    [name : {"", "cfg-name"},
     package : {"", "pkg"},
     version : {None, "cfg-version"},
     title_format : {None, "", False, "{name} {version} ({project_date})"},
     single_file : {True, False}]

\* The command line: the options of the build command.
CommandLines ==
    [draft : BOOLEAN,
     answer_yes : {None, True},
     answer_keep : {None, True},
     project_name : {None, "cli-name"},
     project_version : {None, "cli-version"},
     project_date : {None, "cli-date"}]

NoConfig ==
    [name |-> None, package |-> None, version |-> None,
     title_format |-> None, single_file |-> None]

NoContent == [top |-> <<>>, body |-> <<>>]

VARIABLES
    argv,                \* the command line of the invocation
    cfgfile,             \* the configuration on disk
    disk_fragments,      \* the fragment files on disk, in discovery order
    newsfile,            \* the blocks merged into the news file, newest first
    staged,              \* the news files staged in the VCS
    run,                 \* the number of the invocation
    prev,                \* what the previous invocation did
    caller,              \* "cli": the command was run; "direct": a direct call
    pc,                  \* the position in the code
    ctx_params,          \* click's ctx.params for answer_yes and answer_keep
    processed,           \* the options click has processed
    draft, answer_yes, answer_keep,
    project_name, project_version, project_date,
    config, to_err,
    fragment_contents, fragment_filenames, fragments,
    top_line, render_title_with_fragments, render_title_separately,
    rendered, content, news_file,
    idx,                 \* the loop index of the finally block
    decision,            \* the return value of should_remove_fragment_files
    prompts,             \* the number of click.confirm calls
    stdout, stderr,      \* what was written to each stream
    echoed,              \* the content written to standard output by the draft
    calls,               \* the steps taken, each with its arguments
    raised,              \* the exception that ended the run, or "none"
    exit_code            \* the process's exit code, -1 while it runs

world == <<argv, cfgfile>>
disk == <<disk_fragments, newsfile, staged>>
meta == <<run, prev, caller>>
cli == <<ctx_params, processed>>
args == <<draft, answer_yes, answer_keep>>
meta_data == <<project_name, project_version, project_date>>
loaded == <<config, to_err>>
found == <<fragment_contents, fragment_filenames, fragments>>
title == <<top_line, render_title_with_fragments, render_title_separately>>
texts == <<rendered, content, news_file>>
removal == <<idx, decision, prompts>>
streams == <<stdout, stderr>>
ending == <<raised, exit_code>>

vars == <<world, disk, meta, pc, cli, args, meta_data, loaded, found, title,
          texts, removal, streams, echoed, calls, ending>>

\* ------------------------------------------------------------------ helpers
\* One entry of the log of steps: the function, its arguments, how it ended.
Call(fn, a, r) == [fn |-> fn, args |-> a, result |-> r]

\* Echo, with err not passed on: every message goes to standard output.
Echo_AlwaysStdout(msgs, e) ==
    /\ stdout' = stdout \o msgs
    /\ stderr' = stderr

\* click.echo(message, err=e) for each message of msgs.
Echo(msgs, e) ==
    /\ stdout' = IF e THEN stdout ELSE stdout \o msgs
    /\ stderr' = IF e THEN stderr \o msgs ELSE stderr

\* The same, followed by the report of an exception on standard error.
EchoAndReport(msgs, e, report) ==
    /\ stdout' = IF e THEN stdout ELSE stdout \o msgs
    /\ stderr' = (IF e THEN stderr \o msgs ELSE stderr) \o <<report>>

\* The exception each collaborator raises when it fails.  ConfigError comes from
\* the configuration loader and from the fragment discovery and parsing; the
\* others fail with an error that _main does not catch.
Raises(fn) ==
    IF fn \in {"load_config_from_options", "find_fragments", "split_fragments"}
    THEN "ConfigError"
    ELSE "Error"

\* What the user sees of an exception: _main prints a ConfigError, click prints
\* "Aborted!" for ctx.abort(), the interpreter prints a traceback otherwise.
Report(kind) ==
    CASE kind = "ConfigError" -> "ConfigError message"
      [] kind = "Abort" -> "Aborted!"
      [] OTHER -> "Traceback"

\* ExitCode, with the sys.exit(1) of the ConfigError handler left out.
ExitCode_ConfigErrorZero(kind) == IF kind \in {"none", "ConfigError"} THEN 0 ELSE 1

\* The exit code of the process: sys.exit(1) for a ConfigError, 1 from click for
\* an abort and from the interpreter for an uncaught exception, 0 for a return.
ExitCode(kind) == IF kind = "none" THEN 0 ELSE 1

\* Fail, with the exception of the merge caught and the run going on.
Fail_MergeSwallowed(kind) ==
    /\ raised' = kind
    /\ exit_code' = ExitCode(kind)
    /\ pc' = IF pc = "merge" THEN "stage" ELSE "exit"

\* Fail, with the exception of the renderer caught and the run going on.
Fail_RenderSwallowed(kind) ==
    /\ raised' = kind
    /\ exit_code' = ExitCode(kind)
    /\ pc' = IF pc = "render" THEN "content" ELSE "exit"

\* Fail, with the exception of the stage caught and the run going on.
Fail_StageSwallowed(kind) ==
    /\ raised' = kind
    /\ exit_code' = ExitCode(kind)
    /\ pc' = IF pc = "stage" THEN "should_remove" ELSE "exit"

\* An exception leaves __main: nothing after the raising statement runs.
Fail(kind) ==
    /\ raised' = kind
    /\ exit_code' = ExitCode(kind)
    /\ pc' = "exit"

\* ---------------------------------------------------------------------- Init
Locals ==
    /\ ctx_params = [answer_yes |-> None, answer_keep |-> None]
    /\ processed = {}
    /\ draft = FALSE
    /\ project_name = None /\ project_version = None /\ project_date = None
    /\ config = NoConfig /\ to_err = FALSE
    /\ fragment_contents = <<>> /\ fragments = <<>>
    /\ top_line = <<>>
    /\ render_title_with_fragments = FALSE /\ render_title_separately = FALSE
    /\ rendered = <<>> /\ content = NoContent /\ news_file = <<>>
    /\ idx = 0 /\ decision = None /\ prompts = 0
    /\ stdout = <<>> /\ stderr = <<>> /\ echoed = NoContent
    /\ calls = <<>>
    /\ raised = "none" /\ exit_code = -1

NoPrev == [draft |-> FALSE, calls |-> <<>>, echoed |-> NoContent]

\* The command is run from the shell.
InitCli ==
    /\ caller = "cli"
    /\ pc = "cli"
    /\ argv \in CommandLines
    /\ cfgfile \in Configs
    /\ disk_fragments \in {Files(n) : n \in 0..MaxFiles}
    /\ answer_yes = None /\ answer_keep = None
    /\ fragment_filenames = <<>>

\* should_remove_fragment_files is called on its own, with any arguments.
InitDirect ==
    /\ caller = "direct"
    /\ pc = "should_remove"
    /\ argv = [draft |-> FALSE, answer_yes |-> None, answer_keep |-> None,
               project_name |-> None, project_version |-> None,
               project_date |-> None]
    /\ cfgfile = [name |-> "", package |-> "", version |-> None,
                  title_format |-> "", single_file |-> True]
    /\ disk_fragments = <<>>
    /\ answer_yes \in {None, True, False}
    /\ answer_keep \in {None, True, False}
    /\ fragment_filenames \in FileLists(MaxFiles)

Init ==
    /\ Locals
    /\ newsfile = <<>> /\ staged = {}
    /\ run = 1 /\ prev = NoPrev
    /\ (InitCli \/ InitDirect)

\* ------------------------------------------------- click option processing
OtherParam(param) ==
    IF param = "answer_keep" THEN "answer_yes" ELSE "answer_keep"

\* value_check, without the test of param.name: always the value of --yes.
value_check_Yes(param) == ctx_params["answer_yes"]

\* _validate_answer, lines 33-37: the value of the other flag, as far as click
\* has processed it.
value_check(param) == ctx_params[OtherParam(param)]

\* BothChosen, with the test left out.
BothChosen_Never(param, value) == FALSE

\* _validate_answer, line 38.
BothChosen(param, value) == Truthy(value_check(param)) /\ Truthy(value)

\* click processes the options given on the command line first, in the order
\* they were given, then the others in the order they are declared (--yes
\* before --keep).
MayProcess(param) ==
    /\ param \notin processed
    /\ Truthy(argv[param]) \/
         /\ ~(Truthy(argv[OtherParam(param)]) /\ OtherParam(param) \notin processed)
         /\ param = "answer_keep" => "answer_yes" \in processed \/ Truthy(argv.answer_yes)

\* click processes one of --yes and --keep and calls the callback.
ProcessParam(param) ==
    /\ pc = "cli"
    /\ MayProcess(param)
    /\ IF BothChosen(param, argv[param])
       THEN /\ Fail("Abort")
            /\ stdout' = stdout \o
                 <<"You can not choose both --yes and --keep at the same time">>
            /\ stderr' = stderr \o <<Report("Abort")>>
            /\ UNCHANGED cli
       ELSE /\ ctx_params' = [ctx_params EXCEPT ![param] = argv[param]]
            /\ processed' = processed \cup {param}
            /\ UNCHANGED <<pc, streams, ending>>
    /\ UNCHANGED <<world, disk, meta, args, meta_data, loaded, found, title,
                   texts, removal, echoed, calls>>

\* click calls _main, which calls __main, with the processed options.
Invoke ==
    /\ pc = "cli"
    /\ processed = {"answer_yes", "answer_keep"}
    /\ pc' = "load_config"
    /\ draft' = argv.draft
    /\ answer_yes' = ctx_params.answer_yes
    /\ answer_keep' = ctx_params.answer_keep
    /\ project_name' = argv.project_name
    /\ project_version' = argv.project_version
    /\ project_date' = argv.project_date
    /\ UNCHANGED <<world, disk, meta, cli, loaded, found, title, texts,
                   removal, streams, echoed, calls, ending>>

\* ------------------------------------------------------------ __main, 145-248
\* Lines 145-146: load_config_from_options returns the configuration, or raises.
LoadConfig ==
    /\ pc = "load_config"
    /\ \/ /\ config' = cfgfile
          /\ to_err' = draft
          /\ calls' = Append(calls, Call("load_config_from_options", <<>>, "ok"))
          /\ pc' = "read_template"
          /\ UNCHANGED <<streams, ending>>
       \/ /\ calls' = Append(calls, Call("load_config_from_options", <<>>, "raise"))
          /\ Fail(Raises("load_config_from_options"))
          /\ stderr' = stderr \o <<Report(Raises("load_config_from_options"))>>
          /\ UNCHANGED <<stdout, loaded>>
    /\ UNCHANGED <<world, disk, meta, cli, args, meta_data, found, title,
                   texts, removal, echoed>>

\* Lines 148-150: the template file is opened and read.
ReadTemplate ==
    /\ pc = "read_template"
    /\ \/ /\ calls' = Append(calls, Call("open", <<"config.template">>, "ok"))
          /\ Echo(<<"Loading template...">>, to_err)
          /\ pc' = "find_fragments"
          /\ UNCHANGED ending
       \/ /\ calls' = Append(calls, Call("open", <<"config.template">>, "raise"))
          /\ EchoAndReport(<<"Loading template...">>, to_err, Report(Raises("open")))
          /\ Fail(Raises("open"))
    /\ UNCHANGED <<world, disk, meta, cli, args, meta_data, loaded, found,
                   title, texts, removal, echoed>>

\* find_fragments returns the contents and the paths of the fragment files that
\* are on disk.
find_fragments == [contents |-> disk_fragments, filenames |-> disk_fragments]

\* Lines 152-169.
FindFragments ==
    /\ pc = "find_fragments"
    /\ \/ /\ calls' = Append(calls, Call("find_fragments", <<>>, "ok"))
          /\ fragment_contents' = find_fragments.contents
          /\ fragment_filenames' = find_fragments.filenames
          /\ Echo(<<"Finding news fragments...">>, to_err)
          /\ pc' = "split_fragments"
          /\ UNCHANGED <<fragments, ending>>
       \/ /\ calls' = Append(calls, Call("find_fragments", <<>>, "raise"))
          /\ EchoAndReport(<<"Finding news fragments...">>, to_err,
                           Report(Raises("find_fragments")))
          /\ Fail(Raises("find_fragments"))
          /\ UNCHANGED found
    /\ UNCHANGED <<world, disk, meta, cli, args, meta_data, loaded, title,
                   texts, removal, echoed>>

\* Lines 171-174: split_fragments groups the contents by section and type.
SplitFragments ==
    /\ pc = "split_fragments"
    /\ \/ /\ calls' = Append(calls, Call("split_fragments", fragment_contents, "ok"))
          /\ fragments' = fragment_contents
          /\ Echo(<<"Rendering news fragments...">>, to_err)
          /\ pc' = "version"
          /\ UNCHANGED ending
       \/ /\ calls' = Append(calls, Call("split_fragments", fragment_contents, "raise"))
          /\ EchoAndReport(<<"Rendering news fragments...">>, to_err,
                           Report(Raises("split_fragments")))
          /\ Fail(Raises("split_fragments"))
          /\ UNCHANGED fragments
    /\ UNCHANGED <<world, disk, meta, cli, args, meta_data, loaded,
                   fragment_contents, fragment_filenames, title, texts,
                   removal, echoed>>

\* Lines 176-181: the version of the command line, else of the configuration,
\* else the one get_version detects.
ResolveVersion ==
    /\ pc = "version"
    /\ IF project_version # None
       THEN /\ pc' = "name"
            /\ UNCHANGED <<project_version, calls, streams, ending>>
       ELSE IF config.version # None
       THEN /\ project_version' = config.version
            /\ pc' = "name"
            /\ UNCHANGED <<calls, streams, ending>>
       ELSE \/ /\ calls' = Append(calls, Call("get_version", <<config.package>>, "ok"))
               /\ project_version' = "detected-version"
               /\ pc' = "name"
               /\ UNCHANGED <<streams, ending>>
            \/ /\ calls' = Append(calls, Call("get_version", <<config.package>>, "raise"))
               /\ Fail(Raises("get_version"))
               /\ stderr' = stderr \o <<Report(Raises("get_version"))>>
               /\ UNCHANGED <<project_version, stdout>>
    /\ UNCHANGED <<world, disk, meta, cli, args, project_name, project_date,
                   loaded, found, title, texts, removal, echoed>>

\* Lines 183-194: the name of the command line, else of the configuration, else
\* the one get_project_name detects for the package, else "".
ResolveName ==
    /\ pc = "name"
    /\ IF project_name # None
       THEN /\ pc' = "date"
            /\ UNCHANGED <<project_name, calls, streams, ending>>
       ELSE IF Truthy(config.name)
       THEN /\ project_name' = config.name
            /\ pc' = "date"
            /\ UNCHANGED <<calls, streams, ending>>
       ELSE IF Truthy(config.package)
       THEN \/ /\ calls' = Append(calls,
                                  Call("get_project_name", <<config.package>>, "ok"))
               /\ project_name' = "detected-name"
               /\ pc' = "date"
               /\ UNCHANGED <<streams, ending>>
            \/ /\ calls' = Append(calls,
                                  Call("get_project_name", <<config.package>>, "raise"))
               /\ Fail(Raises("get_project_name"))
               /\ stderr' = stderr \o <<Report(Raises("get_project_name"))>>
               /\ UNCHANGED <<project_name, stdout>>
       ELSE /\ project_name' = ""
            /\ pc' = "date"
            /\ UNCHANGED <<calls, streams, ending>>
    /\ UNCHANGED <<world, disk, meta, cli, args, project_version, project_date,
                   loaded, found, title, texts, removal, echoed>>

\* ResolveDate, with the date of the command line not looked at.
ResolveDate_AlwaysToday ==
    /\ pc = "date"
    /\ project_date' = "today"
    /\ pc' = "title"
    /\ UNCHANGED <<world, disk, meta, cli, args, project_name, project_version,
                   loaded, found, title, texts, removal, streams, echoed,
                   calls, ending>>

\* Lines 196-197: the date of the command line, else today's.
ResolveDate ==
    /\ pc = "date"
    /\ project_date' = IF project_date = None THEN "today" ELSE project_date
    /\ pc' = "title"
    /\ UNCHANGED <<world, disk, meta, cli, args, project_name, project_version,
                   loaded, found, title, texts, removal, streams, echoed,
                   calls, ending>>

\* config.title_format.format(name=..., version=..., project_date=...) and
\* news_file.format(...): the format string with the values it is given.
Format(fmt, name, version, date) == <<fmt, name, version, date>>

\* TitleMode, with line 205 testing "not config.title_format": an empty or
\* unset title format omits the title.
TitleMode_FalsyOmits ==
    /\ pc = "title"
    /\ IF Truthy(config.title_format)
       THEN /\ top_line' = Format(config.title_format, project_name,
                                  project_version, project_date)
            /\ render_title_with_fragments' = FALSE
            /\ render_title_separately' = TRUE
       ELSE /\ top_line' = <<>>
            /\ render_title_separately' = FALSE
            /\ render_title_with_fragments' = FALSE
    /\ pc' = "render"
    /\ UNCHANGED <<world, disk, meta, cli, args, meta_data, loaded, found,
                   texts, removal, streams, echoed, calls, ending>>

\* Lines 199-214: the title is rendered separately, not at all, or with the
\* fragments.
TitleMode ==
    /\ pc = "title"
    /\ IF Truthy(config.title_format)
       THEN /\ top_line' = Format(config.title_format, project_name,
                                  project_version, project_date)
            /\ render_title_with_fragments' = FALSE
            /\ render_title_separately' = TRUE
       ELSE IF config.title_format = False
       THEN /\ top_line' = <<>>
            /\ render_title_separately' = FALSE
            /\ render_title_with_fragments' = FALSE
       ELSE /\ top_line' = <<>>
            /\ render_title_separately' = FALSE
            /\ render_title_with_fragments' = TRUE
    /\ pc' = "render"
    /\ UNCHANGED <<world, disk, meta, cli, args, meta_data, loaded, found,
                   texts, removal, streams, echoed, calls, ending>>

\* RenderArgs, with a draft rendering a placeholder version.
RenderArgs_DraftVersion ==
    <<project_name, IF draft THEN "x.y.z" ELSE project_version, project_date,
      IF render_title_with_fragments THEN True ELSE False>> \o fragments

\* The arguments of render_fragments that the run decides: the fragments, the
\* name, version and date, and render_title.
RenderArgs ==
    <<project_name, project_version, project_date,
      IF render_title_with_fragments THEN True ELSE False>> \o fragments

\* Lines 216-228: render_fragments returns the text of the fragments.
Render ==
    /\ pc = "render"
    /\ \/ /\ calls' = Append(calls, Call("render_fragments", RenderArgs, "ok"))
          /\ rendered' = <<"rendered">> \o RenderArgs
          /\ pc' = "content"
          /\ UNCHANGED <<streams, ending>>
       \/ /\ calls' = Append(calls, Call("render_fragments", RenderArgs, "raise"))
          /\ Fail(Raises("render_fragments"))
          /\ stderr' = stderr \o <<Report(Raises("render_fragments"))>>
          /\ UNCHANGED <<rendered, stdout>>
    /\ UNCHANGED <<world, disk, meta, cli, args, meta_data, loaded, found,
                   title, content, news_file, removal, echoed>>

\* Lines 230-239: the title and its underline are put before the rendered text
\* when the title is rendered separately.
MakeContent ==
    /\ pc = "content"
    /\ content' = IF render_title_separately
                  THEN [top |-> <<top_line>>, body |-> rendered]
                  ELSE [top |-> <<>>, body |-> rendered]
    /\ pc' = "draft"
    /\ UNCHANGED <<world, disk, meta, cli, args, meta_data, loaded, found,
                   title, rendered, news_file, removal, streams, echoed,
                   calls, ending>>

\* Draft, without the return of line 248.
Draft_NoReturn ==
    /\ pc = "draft"
    /\ IF draft
       THEN /\ stdout' = (IF to_err THEN stdout
                          ELSE Append(stdout, "Draft only -- nothing has been written."))
                         \o <<"<content>">>
            /\ stderr' = IF to_err
                         THEN Append(stderr, "Draft only -- nothing has been written.")
                         ELSE stderr
            /\ echoed' = content
            /\ pc' = "merge"
            /\ UNCHANGED ending
       ELSE /\ pc' = "merge"
            /\ UNCHANGED <<streams, echoed, ending>>
    /\ UNCHANGED <<world, disk, meta, cli, args, meta_data, loaded, found,
                   title, texts, removal, calls>>

\* Lines 241-248: a draft prints the content and returns.
Draft ==
    /\ pc = "draft"
    /\ IF draft
       THEN /\ stdout' = (IF to_err THEN stdout
                          ELSE Append(stdout, "Draft only -- nothing has been written."))
                         \o <<"<content>">>
            /\ stderr' = IF to_err
                         THEN Append(stderr, "Draft only -- nothing has been written.")
                         ELSE stderr
            /\ echoed' = content
            /\ raised' = "none"
            /\ exit_code' = ExitCode("none")
            /\ pc' = "exit"
       ELSE /\ pc' = "merge"
            /\ UNCHANGED <<streams, echoed, ending>>
    /\ UNCHANGED <<world, disk, meta, cli, args, meta_data, loaded, found,
                   title, texts, removal, calls>>

\* ------------------------------------------------------------ __main, 250-280
\* The text of a content, as one list of strings.
Flat(c) == (IF c.top = <<>> THEN <<>> ELSE c.top[1] \o <<"underline">>) \o c.body

\* NewsFileName, with the per-version formatting left out.
NewsFileName_NeverFormatted == <<"config.filename">>

\* Lines 251-258: the name of the news file.
NewsFileName ==
    IF config.single_file = False
    THEN Format("config.filename", project_name, project_version, project_date)
    ELSE <<"config.filename">>

\* append_to_newsfile puts the content into the news file.
append_to_newsfile(file, top, text) ==
    <<[file |-> file, top_line |-> top, content |-> text]>> \o newsfile

\* Lines 250-267: the content is merged into the news file.
WriteNewsfile ==
    /\ pc = "merge"
    /\ news_file' = NewsFileName
    /\ LET a == NewsFileName \o <<"top_line">> \o top_line \o <<"content">>
                  \o Flat(content)
       IN \/ /\ calls' = Append(calls, Call("append_to_newsfile", a, "ok"))
             /\ newsfile' = append_to_newsfile(NewsFileName, top_line, content)
             /\ Echo(<<"Writing to newsfile...">>, to_err)
             /\ pc' = "stage"
             /\ UNCHANGED ending
          \/ /\ calls' = Append(calls, Call("append_to_newsfile", a, "raise"))
             /\ EchoAndReport(<<"Writing to newsfile...">>, to_err,
                              Report(Raises("append_to_newsfile")))
             /\ Fail(Raises("append_to_newsfile"))
             /\ UNCHANGED newsfile
    /\ UNCHANGED <<world, disk_fragments, staged, meta, cli, args, meta_data,
                   loaded, found, title, rendered, content, removal, echoed>>

\* Lines 269-270: the news file is staged.
Stage ==
    /\ pc = "stage"
    /\ \/ /\ calls' = Append(calls, Call("stage_newsfile", news_file, "ok"))
          /\ staged' = staged \cup {news_file}
          /\ Echo(<<"Staging newsfile...">>, to_err)
          /\ pc' = "should_remove"
          /\ UNCHANGED ending
       \/ /\ calls' = Append(calls, Call("stage_newsfile", news_file, "raise"))
          /\ EchoAndReport(<<"Staging newsfile...">>, to_err,
                           Report(Raises("stage_newsfile")))
          /\ Fail(Raises("stage_newsfile"))
          /\ UNCHANGED staged
    /\ UNCHANGED <<world, disk_fragments, newsfile, meta, cli, args, meta_data,
                   loaded, found, title, texts, removal, echoed>>

\* ------------------------------------- should_remove_fragment_files, 283-308
\* NothingToRemove, with the test left out.
NothingToRemove_Never == FALSE

\* Line 288: not fragment_filenames.
NothingToRemove == fragment_filenames = <<>>

\* Lines 288-300: nothing to remove, or the heading of the list of files.  The
\* return of line 295 is carried out after the finally block.
ShouldRemoveEnter ==
    /\ pc = "should_remove"
    /\ calls' = Append(calls, Call("should_remove_fragment_files",
                                   fragment_filenames \o <<answer_yes, answer_keep>>,
                                   "ok"))
    /\ IF NothingToRemove
       THEN /\ stdout' = Append(stdout, "No news fragments to remove. Skipping!")
            /\ decision' = False
            /\ pc' = "returned"
            /\ UNCHANGED idx
       ELSE /\ IF Truthy(answer_keep)
               THEN /\ stdout' = Append(stdout, "Keeping the following files:")
                    /\ decision' = False
               ELSE IF Truthy(answer_yes)
               THEN /\ stdout' = Append(stdout, "Removing the following files:")
                    /\ UNCHANGED decision
               ELSE /\ stdout' = Append(stdout, "I want to remove the following files:")
                    /\ UNCHANGED decision
            /\ idx' = 1
            /\ pc' = "finally"
    /\ UNCHANGED <<world, disk, meta, cli, args, meta_data, loaded, found,
                   title, texts, prompts, stderr, echoed, ending>>

\* Lines 303-304: one pass of the loop of the finally block.
PrintFilename ==
    /\ pc = "finally"
    /\ idx <= Len(fragment_filenames)
    /\ stdout' = Append(stdout, fragment_filenames[idx])
    /\ idx' = idx + 1
    /\ UNCHANGED <<world, disk, meta, pc, cli, args, meta_data, loaded, found,
                   title, texts, decision, prompts, stderr, echoed, calls,
                   ending>>

\* EndFinally, with the loop left after the first file.
EndFinally_AfterFirst ==
    /\ pc = "finally"
    /\ idx > 1
    /\ pc' = IF decision = False THEN "returned" ELSE "confirm"
    /\ UNCHANGED <<world, disk, meta, cli, args, meta_data, loaded, found,
                   title, texts, removal, streams, echoed, calls, ending>>

\* The finally block ends: the pending return of line 295 is carried out, or
\* line 306 is next.
EndFinally ==
    /\ pc = "finally"
    /\ idx > Len(fragment_filenames)
    /\ pc' = IF decision = False THEN "returned" ELSE "confirm"
    /\ UNCHANGED <<world, disk, meta, cli, args, meta_data, loaded, found,
                   title, texts, removal, streams, echoed, calls, ending>>

\* NoQuestion, with the question never asked.
NoQuestion_Always == TRUE

\* NoQuestion, with the yes flag not looked at.
NoQuestion_Never == FALSE

\* Line 306, left operand of the or: no question is asked.
NoQuestion == Truthy(answer_yes)

\* Lines 306-308 with --yes: the files are removed without a question.
ConfirmSkipped ==
    /\ pc = "confirm"
    /\ NoQuestion
    /\ decision' = True
    /\ pc' = "returned"
    /\ UNCHANGED <<world, disk, meta, cli, args, meta_data, loaded, found,
                   title, texts, idx, prompts, streams, echoed, calls, ending>>

\* Lines 306-308 without --yes: click.confirm asks, and the user answers yes or
\* no, or ends the input, and click.confirm raises Abort.
Confirm ==
    /\ pc = "confirm"
    /\ ~NoQuestion
    /\ prompts' = prompts + 1
    /\ stdout' = Append(stdout, "Is it okay if I remove those files?")
    /\ \/ /\ \E answer \in {True, False} :
                /\ decision' = answer
                /\ calls' = Append(calls, Call("confirm", <<answer>>, "ok"))
          /\ pc' = "returned"
          /\ UNCHANGED <<stderr, ending>>
       \/ /\ calls' = Append(calls, Call("confirm", <<>>, "raise"))
          /\ Fail("Abort")
          /\ stderr' = Append(stderr, Report("Abort"))
          /\ UNCHANGED decision
    /\ UNCHANGED <<world, disk, meta, cli, args, meta_data, loaded, found,
                   title, texts, idx, echoed>>

\* ------------------------------------------------------------ __main, 272-280
\* AfterDecision, with the returned value not tested.
AfterDecision_AlwaysRemove ==
    /\ pc = "returned"
    /\ caller = "cli"
    /\ pc' = "remove"
    /\ UNCHANGED <<world, disk, meta, cli, args, meta_data, loaded, found,
                   title, texts, removal, streams, echoed, calls, ending>>

\* Lines 272-277: the fragments are removed when the decision is true.
AfterDecision ==
    /\ pc = "returned"
    /\ caller = "cli"
    /\ pc' = IF decision = True THEN "remove" ELSE "done"
    /\ UNCHANGED <<world, disk, meta, cli, args, meta_data, loaded, found,
                   title, texts, removal, streams, echoed, calls, ending>>

\* remove_files deletes the files it is given.
remove_files(files) ==
    SelectSeq(disk_fragments, LAMBDA f : \A i \in DOMAIN files : files[i] # f)

\* Remove, with the first located file left out of the removal.
Remove_SkipsFirst ==
    /\ pc = "remove"
    /\ \/ /\ calls' = Append(calls, Call("remove_files", Tail(fragment_filenames), "ok"))
          /\ disk_fragments' = remove_files(Tail(fragment_filenames))
          /\ Echo(<<"Removing news fragments...">>, to_err)
          /\ pc' = "done"
          /\ UNCHANGED ending
       \/ /\ calls' = Append(calls, Call("remove_files", Tail(fragment_filenames), "raise"))
          /\ EchoAndReport(<<"Removing news fragments...">>, to_err,
                           Report(Raises("remove_files")))
          /\ Fail(Raises("remove_files"))
          /\ UNCHANGED disk_fragments
    /\ UNCHANGED <<world, newsfile, staged, meta, cli, args, meta_data, loaded,
                   found, title, texts, removal, echoed>>

\* Lines 277-278.
Remove ==
    /\ pc = "remove"
    /\ \/ /\ calls' = Append(calls, Call("remove_files", fragment_filenames, "ok"))
          /\ disk_fragments' = remove_files(fragment_filenames)
          /\ Echo(<<"Removing news fragments...">>, to_err)
          /\ pc' = "done"
          /\ UNCHANGED ending
       \/ /\ calls' = Append(calls, Call("remove_files", fragment_filenames, "raise"))
          /\ EchoAndReport(<<"Removing news fragments...">>, to_err,
                           Report(Raises("remove_files")))
          /\ Fail(Raises("remove_files"))
          /\ UNCHANGED disk_fragments
    /\ UNCHANGED <<world, newsfile, staged, meta, cli, args, meta_data, loaded,
                   found, title, texts, removal, echoed>>

\* Line 280: __main returns and the process ends with exit code 0.
Done ==
    /\ pc = "done"
    /\ Echo(<<"Done!">>, to_err)
    /\ raised' = "none"
    /\ exit_code' = ExitCode("none")
    /\ pc' = "exit"
    /\ UNCHANGED <<world, disk, meta, cli, args, meta_data, loaded, found,
                   title, texts, removal, echoed, calls>>

\* ------------------------------------------------------------- a second run
\* After a run that ended without an error the command is run again with the
\* same options, this time not as a draft.
Reinvoke ==
    /\ pc = "exit"
    /\ caller = "cli"
    /\ raised = "none"
    /\ run < MaxRuns
    /\ run' = run + 1
    /\ prev' = [draft |-> draft, calls |-> calls, echoed |-> echoed]
    /\ argv' = [argv EXCEPT !.draft = FALSE]
    /\ pc' = "cli"
    /\ ctx_params' = [answer_yes |-> None, answer_keep |-> None]
    /\ processed' = {}
    /\ draft' = FALSE
    /\ answer_yes' = None /\ answer_keep' = None
    /\ project_name' = None /\ project_version' = None /\ project_date' = None
    /\ config' = NoConfig /\ to_err' = FALSE
    /\ fragment_contents' = <<>> /\ fragment_filenames' = <<>> /\ fragments' = <<>>
    /\ top_line' = <<>>
    /\ render_title_with_fragments' = FALSE /\ render_title_separately' = FALSE
    /\ rendered' = <<>> /\ content' = NoContent /\ news_file' = <<>>
    /\ idx' = 0 /\ decision' = None /\ prompts' = 0
    /\ stdout' = <<>> /\ stderr' = <<>> /\ echoed' = NoContent
    /\ calls' = <<>>
    /\ raised' = "none" /\ exit_code' = -1
    /\ UNCHANGED <<cfgfile, disk, caller>>

Next ==
    \/ \E param \in {"answer_yes", "answer_keep"} : ProcessParam(param)
    \/ Invoke
    \/ LoadConfig
    \/ ReadTemplate
    \/ FindFragments
    \/ SplitFragments
    \/ ResolveVersion
    \/ ResolveName
    \/ ResolveDate
    \/ TitleMode
    \/ Render
    \/ MakeContent
    \/ Draft
    \/ WriteNewsfile
    \/ Stage
    \/ ShouldRemoveEnter
    \/ PrintFilename
    \/ EndFinally
    \/ ConfirmSkipped
    \/ Confirm
    \/ AfterDecision
    \/ Remove
    \/ Done
    \/ Reinvoke

Spec == Init /\ [][Next]_vars

\* ================================================================== claims
\* Whether fn was called in this run, and whether a call of it returned.
Called(fn) == \E i \in DOMAIN calls : calls[i].fn = fn
Returned(fn) == \E i \in DOMAIN calls : calls[i].fn = fn /\ calls[i].result = "ok"
Failed(fn) == \E i \in DOMAIN calls : calls[i].fn = fn /\ calls[i].result = "raise"

\* The steps that validate and render, and the steps that change files.
ValidationSteps ==
    {"load_config_from_options", "open", "find_fragments", "split_fragments",
     "get_version", "get_project_name", "render_fragments"}
MutatingSteps == {"append_to_newsfile", "stage_newsfile", "remove_files"}
RemovalSteps == {"should_remove_fragment_files", "confirm", "remove_files"}

BothFlags == Truthy(answer_yes) /\ Truthy(answer_keep)

\* C1: the news file is staged only after a merge that returned, the fragments
\* are removed only after the stage that follows that merge, and after a merge
\* that raised neither the stage nor the removal is called in that run.
C1_MergeThenStageThenRemove ==
    /\ \A i \in DOMAIN calls :
         calls[i].fn = "stage_newsfile" =>
           \E j \in 1..(i - 1) :
              calls[j].fn = "append_to_newsfile" /\ calls[j].result = "ok"
    /\ \A i \in DOMAIN calls :
         calls[i].fn = "remove_files" =>
           \E j \in 1..(i - 1) :
              /\ calls[j].fn = "stage_newsfile"
              /\ \E k \in 1..(j - 1) :
                    calls[k].fn = "append_to_newsfile" /\ calls[k].result = "ok"
    /\ Failed("append_to_newsfile") =>
         ~Called("stage_newsfile") /\ ~Called("remove_files")
    /\ staged # {} => newsfile # <<>>

C1_Witness ==
    /\ pc = "exit" /\ raised = "none"
    /\ Returned("append_to_newsfile") /\ Returned("stage_newsfile")
    /\ Returned("remove_files")

\* C2: a draft run never calls the merge, the stage, the removal decision, the
\* confirmation or the removal, and leaves the files as they were.
C2_DraftWritesNothing ==
    (caller = "cli" /\ argv.draft) =>
       /\ \A i \in DOMAIN calls : calls[i].fn \notin MutatingSteps \cup RemovalSteps
       /\ prompts = 0
       /\ pc \notin {"merge", "stage", "should_remove", "finally", "confirm",
                     "returned", "remove", "done"}
       /\ newsfile = <<>> /\ staged = {}

C2_Witness ==
    /\ argv.draft /\ pc = "exit" /\ raised = "none"
    /\ answer_yes = True /\ fragment_filenames # <<>>
    /\ echoed = content /\ content # NoContent

\* The validation and rendering steps of a log, each with its arguments.
Validation(log) == SelectSeq(log, LAMBDA c : c.fn \in ValidationSteps)

SameStep(a, b) == a.fn = b.fn /\ a.args = b.args

\* C3: a real run that follows a draft run with the same options takes the
\* same validation and rendering steps with the same arguments, and merges the
\* content the draft printed.
C3_DraftAndRealAgree ==
    (run > 1 /\ prev.draft) =>
       LET real == Validation(calls)
           dry == Validation(prev.calls)
       IN /\ Len(real) <= Len(dry)
          /\ \A i \in 1..Len(real) : SameStep(real[i], dry[i])
          /\ pc \in {"draft", "merge", "stage"} =>
               /\ Len(real) = Len(dry)
               /\ content = prev.echoed
          /\ Returned("append_to_newsfile") =>
               newsfile[1].content = prev.echoed

C3_Witness ==
    /\ run > 1 /\ prev.draft /\ pc = "stage"
    /\ Returned("get_version") /\ Returned("get_project_name")
    /\ newsfile[1].content = prev.echoed
    /\ prev.echoed.top # <<>>

\* C4: after a validation or rendering step has failed, the run has called and
\* calls neither the merge nor the stage nor the removal.
C4_FailedValidationWritesNothing ==
    (\E i \in DOMAIN calls :
        calls[i].fn \in ValidationSteps /\ calls[i].result = "raise") =>
       /\ \A i \in DOMAIN calls : calls[i].fn \notin MutatingSteps
       /\ pc = "exit"
       /\ raised # "none"

C4_Witness ==
    /\ pc = "exit" /\ ~draft /\ Failed("render_fragments")
    /\ fragment_filenames # <<>>

\* C5: with --yes and --keep both given, in either order, the command aborts
\* in the option callback: __main is never entered.
C5_ConflictingFlagsAbortFirst ==
    (caller = "cli" /\ argv.answer_yes = True /\ argv.answer_keep = True) =>
       /\ pc \in {"cli", "exit"}
       /\ calls = <<>>
       /\ config = NoConfig
       /\ pc = "exit" =>
            /\ raised = "Abort"
            /\ stdout =
                 <<"You can not choose both --yes and --keep at the same time">>

C5_Witness ==
    /\ caller = "cli" /\ pc = "exit" /\ raised = "Abort"
    /\ ctx_params.answer_keep = True /\ ctx_params.answer_yes = None

\* C6 as stated: a call of should_remove_fragment_files with both flags set
\* raises before a file is printed.
C6_Original ==
    (caller = "direct" /\ BothFlags /\ pc # "should_remove") =>
       /\ raised # "none"
       /\ stdout = <<>>

\* C6 as amended: a call with both flags set raises nothing and asks nothing,
\* the keep flag wins (the list is printed and the result is False); the
\* command line never brings both flags to the call.
C6_KeepWinsAndCliRejects ==
    /\ (caller = "direct" /\ BothFlags) =>
          /\ raised = "none"
          /\ prompts = 0
          /\ (pc = "returned" /\ fragment_filenames # <<>>) =>
                /\ decision = False
                /\ stdout = <<"Keeping the following files:">> \o fragment_filenames
    /\ (caller = "cli" /\ Called("should_remove_fragment_files")) => ~BothFlags

C6_Witness ==
    /\ caller = "direct" /\ BothFlags /\ pc = "returned"
    /\ Len(fragment_filenames) = MaxFiles

\* C7 as stated: a ConfigError ends the run with exit code 1 and nothing
\* written, and every other run ends with exit code 0.
C7_Original ==
    (caller = "cli" /\ pc = "exit") =>
       exit_code = IF raised = "ConfigError" THEN 1 ELSE 0

\* C7 as amended: a ConfigError is printed and ends the run with exit code 1
\* and nothing merged, staged or removed; a run that returns ends with exit
\* code 0; an abort or any other error ends with exit code 1.
C7_ExitCodes ==
    (caller = "cli" /\ pc = "exit") =>
       /\ raised = "ConfigError" =>
            /\ exit_code = 1
            /\ stderr # <<>> /\ stderr[Len(stderr)] = Report("ConfigError")
            /\ \A i \in DOMAIN calls : calls[i].fn \notin MutatingSteps
       /\ raised = "none" => exit_code = 0
       /\ raised \in {"Abort", "Error"} => exit_code = 1
       /\ raised \in {"none", "ConfigError", "Abort", "Error"}

C7_Witness ==
    /\ caller = "cli" /\ pc = "exit" /\ raised = "ConfigError" /\ exit_code = 1
    /\ Failed("split_fragments") /\ ~draft

\* C8: for an empty list the decision is False whatever the flags, and no
\* question is asked.
C8_EmptyListKept ==
    (Called("should_remove_fragment_files") /\ fragment_filenames = <<>>) =>
       /\ decision = False
       /\ prompts = 0
       /\ ~Called("confirm") /\ ~Called("remove_files")
       /\ pc \in {"returned", "done", "exit"}

C8_Witness ==
    /\ caller = "direct" /\ pc = "returned" /\ fragment_filenames = <<>>
    /\ answer_yes = True /\ answer_keep = None

\* The last n lines of standard output.
LastLines(n) == SubSeq(stdout, Len(stdout) - n + 1, Len(stdout))

\* C9: for a non-empty list with the keep flag the decision is False, no
\* question is asked, and the files are printed once each, in the list's order.
C9_KeepPrintsAndKeeps ==
    (Called("should_remove_fragment_files") /\ fragment_filenames # <<>>
       /\ Truthy(answer_keep)) =>
       /\ prompts = 0
       /\ ~Called("confirm") /\ ~Called("remove_files")
       /\ pc \notin {"confirm", "remove"}
       /\ pc = "returned" =>
            /\ decision = False
            /\ Len(stdout) >= Len(fragment_filenames) + 1
            /\ LastLines(Len(fragment_filenames) + 1) =
                 <<"Keeping the following files:">> \o fragment_filenames

C9_Witness ==
    /\ pc = "returned" /\ Truthy(answer_keep)
    /\ Len(fragment_filenames) = MaxFiles
    /\ fragment_filenames[1] # fragment_filenames[MaxFiles]

\* C10: for a non-empty list with the yes flag and without the keep flag the
\* decision is True and no question is asked.
C10_YesRemovesWithoutQuestion ==
    (Called("should_remove_fragment_files") /\ fragment_filenames # <<>>
       /\ Truthy(answer_yes) /\ ~Truthy(answer_keep)) =>
       /\ prompts = 0
       /\ ~Called("confirm")
       /\ pc = "returned" => decision = True
       /\ pc \in {"finally", "confirm", "returned", "remove", "done", "exit"}

C10_Witness ==
    /\ caller = "cli" /\ pc = "remove" /\ answer_yes = True
    /\ prompts = 0 /\ fragment_filenames # <<>>

\* The answer the user gave to click.confirm in this run, if any.
Answered(answer) ==
    \E i \in DOMAIN calls :
       calls[i].fn = "confirm" /\ calls[i].result = "ok" /\ calls[i].args = <<answer>>

NeitherFlag == ~Truthy(answer_yes) /\ ~Truthy(answer_keep)

\* C11 as stated: for a non-empty list with neither flag set the decision
\* function returns a request for confirmation without asking itself.
C11_Original ==
    (Called("should_remove_fragment_files") /\ fragment_filenames # <<>>
       /\ NeitherFlag /\ pc = "returned") =>
       /\ prompts = 0
       /\ decision \notin {True, False}

\* C11 as amended: for a non-empty list with neither flag set
\* should_remove_fragment_files asks the question itself, once, before it
\* returns, and returns the answer as True or False; its caller asks nothing.
C11_DecisionAsksItself ==
    (Called("should_remove_fragment_files") /\ fragment_filenames # <<>>
       /\ NeitherFlag) =>
       /\ pc \in {"finally"} => prompts = 0
       /\ pc \in {"returned", "remove", "done"} =>
            /\ prompts = 1
            /\ decision \in {True, False}
            /\ Answered(decision)
       /\ prompts <= 1

C11_Witness ==
    /\ caller = "direct" /\ pc = "returned" /\ NeitherFlag
    /\ fragment_filenames # <<>> /\ prompts = 1 /\ decision = True

\* The value of render_title that render_fragments was called with.
RenderTitleArg(v) ==
    \E i \in DOMAIN calls : calls[i].fn = "render_fragments" /\ calls[i].args[4] = v

\* C12 as stated: an explicit empty title format omits the title like a
\* disabled one.
C12_Original ==
    (Called("render_fragments") /\ config.title_format = "") =>
       /\ ~render_title_separately
       /\ ~render_title_with_fragments

\* C12 as amended: a non-empty title format gives a separate title (the top
\* line and its underline are put before the rendered text, and the renderer
\* is told to render no title); the title format False gives no title; an
\* empty or unset title format gives the title rendered with the fragments.
\* Never are both modes chosen.
C12_TitleModes ==
    Called("render_fragments") =>
       /\ ~(render_title_separately /\ render_title_with_fragments)
       /\ Truthy(config.title_format) =>
            /\ render_title_separately /\ ~render_title_with_fragments
            /\ top_line = Format(config.title_format, project_name,
                                 project_version, project_date)
            /\ RenderTitleArg(False)
            /\ content # NoContent => content.top = <<top_line>>
       /\ config.title_format = False =>
            /\ ~render_title_separately /\ ~render_title_with_fragments
            /\ top_line = <<>>
            /\ RenderTitleArg(False)
            /\ content.top = <<>>
       /\ config.title_format \in {"", None} =>
            /\ ~render_title_separately /\ render_title_with_fragments
            /\ top_line = <<>>
            /\ RenderTitleArg(True)
            /\ content.top = <<>>
       /\ content # NoContent => content.body = rendered

C12_Witness ==
    /\ pc = "draft" /\ config.title_format = ""
    /\ render_title_with_fragments /\ content.top = <<>>
    /\ content.body = rendered /\ RenderTitleArg(True)

\* C13: a real run that follows a run which merged the news file and removed
\* the fragments leaves the news file as that run wrote it: one block.
C13_SecondRunChangesNothing ==
    (run = 2 /\ ~prev.draft
       /\ \E i \in DOMAIN prev.calls :
             prev.calls[i].fn = "remove_files" /\ prev.calls[i].result = "ok") =>
       Len(newsfile) = 1

\* What each of the three must resolve to, from its own sources alone.
ExpectedVersion ==
    IF argv.project_version # None THEN argv.project_version
    ELSE IF cfgfile.version # None THEN cfgfile.version
    ELSE "detected-version"

ExpectedName ==
    IF argv.project_name # None THEN argv.project_name
    ELSE IF Truthy(cfgfile.name) THEN cfgfile.name
    ELSE IF Truthy(cfgfile.package) THEN "detected-name"
    ELSE ""

ExpectedDate ==
    IF argv.project_date # None THEN argv.project_date ELSE "today"

\* C14: name, version and date are each the value of the command line, else
\* the configured value, else the detected one (today for the date), each
\* from its own sources alone; get_version is called only when neither the
\* command line nor the configuration gives a version, get_project_name only
\* when neither gives a name and a package is configured.
C14_ResolutionPrecedence ==
    caller = "cli" =>
       /\ Called("get_version") =>
            argv.project_version = None /\ cfgfile.version = None
       /\ Called("get_project_name") =>
            /\ argv.project_name = None
            /\ ~Truthy(cfgfile.name)
            /\ Truthy(cfgfile.package)
       /\ Called("render_fragments") =>
            /\ project_version = ExpectedVersion
            /\ project_name = ExpectedName
            /\ project_date = ExpectedDate
            /\ Returned("get_version") <=>
                 (argv.project_version = None /\ cfgfile.version = None)
            /\ Returned("get_project_name") <=>
                 (argv.project_name = None /\ ~Truthy(cfgfile.name)
                    /\ Truthy(cfgfile.package))

C14_Witness ==
    /\ Called("render_fragments")
    /\ argv.project_version = "cli-version" /\ cfgfile.version = "cfg-version"
    /\ argv.project_name = None /\ Returned("get_project_name")
    /\ argv.project_date = "cli-date" /\ project_date = "cli-date"
    /\ project_version = "cli-version" /\ project_name = "detected-name"

\* The name the news file must have: the configured name, formatted with the
\* resolved name, version and date when single_file is False.
ExpectedNewsFile ==
    IF cfgfile.single_file = False
    THEN <<"config.filename", ExpectedName, ExpectedVersion, ExpectedDate>>
    ELSE <<"config.filename">>

\* C15: the merge and the stage are given the same file name: the configured
\* name in single-file mode, and otherwise the configured name formatted with
\* the name, version and date that the title was formatted with.
C15_SameNewsFileName ==
    /\ \A i \in DOMAIN calls :
          calls[i].fn = "append_to_newsfile" =>
             /\ news_file = ExpectedNewsFile
             /\ SubSeq(calls[i].args, 1, Len(news_file)) = news_file
             /\ calls[i].args[Len(news_file) + 1] = "top_line"
    /\ \A i \in DOMAIN calls :
          calls[i].fn = "stage_newsfile" =>
             /\ calls[i].args = news_file
             /\ newsfile[1].file = news_file
    /\ Returned("stage_newsfile") => staged = {news_file}
    /\ (Called("append_to_newsfile") /\ render_title_separately
          /\ config.single_file = False) =>
          SubSeq(top_line, 2, 4) = SubSeq(news_file, 2, 4)

C15_Witness ==
    /\ Returned("stage_newsfile") /\ config.single_file = False
    /\ render_title_separately /\ argv.project_version = "cli-version"
    /\ news_file = <<"config.filename", "cfg-name", "cli-version", "today">>
    /\ staged = {news_file}

\* C16: for a non-empty list without the keep flag the fragments are removed
\* exactly when the yes flag is set or the user answers yes; the question is
\* asked at most once in a run, only with neither flag set, and only after
\* the whole list has been printed.
C16_RemovedIffYesOrConfirmed ==
    /\ (Called("should_remove_fragment_files") /\ fragment_filenames # <<>>
          /\ ~Truthy(answer_keep)) =>
          /\ Called("remove_files") => Truthy(answer_yes) \/ Answered(True)
          /\ pc = "returned" =>
               (decision = True <=> Truthy(answer_yes) \/ Answered(True))
          /\ (caller = "cli" /\ pc \in {"done", "exit"}) =>
               (Called("remove_files") <=> Truthy(answer_yes) \/ Answered(True))
    /\ prompts <= 1
    /\ prompts = 1 =>
          /\ NeitherFlag
          /\ fragment_filenames # <<>>
          /\ idx = Len(fragment_filenames) + 1
          /\ (pc = "returned" \/ raised = "Abort") =>
               LastLines(Len(fragment_filenames) + 2) =
                  <<"I want to remove the following files:">>
                     \o fragment_filenames
                     \o <<"Is it okay if I remove those files?">>

C16_Witness ==
    /\ caller = "cli" /\ pc = "exit" /\ raised = "none"
    /\ NeitherFlag /\ prompts = 1 /\ Answered(True)
    /\ Returned("remove_files") /\ Len(fragment_filenames) = MaxFiles

\* C17: the files given to remove_files are the list that find_fragments
\* returned in this run, which no later step changes: until the removal it
\* is the list of the fragment files on disk, and after the removal none of
\* them is left.
C17_RemovesExactlyTheFoundFiles ==
    caller = "cli" =>
       /\ ~Returned("find_fragments") => fragment_filenames = <<>>
       /\ (Returned("find_fragments") /\ ~Returned("remove_files")) =>
            fragment_filenames = disk_fragments
       /\ \A i \in DOMAIN calls :
            calls[i].fn = "remove_files" =>
               /\ calls[i].args = fragment_filenames
               /\ fragment_filenames # <<>>
       /\ Returned("remove_files") => disk_fragments = <<>>

C17_Witness ==
    /\ caller = "cli" /\ Returned("remove_files")
    /\ Len(fragment_filenames) = MaxFiles /\ disk_fragments = <<>>
    /\ fragment_filenames = Files(MaxFiles)

\* The progress messages of a run that got as far as the content.
ProgressMessages ==
    <<"Loading template...", "Finding news fragments...",
      "Rendering news fragments...">>

C19_FailedStageRemovesNothing ==
    caller = "cli" =>
       /\ Failed("stage_newsfile") =>
            /\ Returned("append_to_newsfile")
            /\ ~Called("should_remove_fragment_files")
            /\ ~Called("confirm") /\ ~Called("remove_files")
            /\ prompts = 0 /\ decision = None
            /\ disk_fragments = fragment_filenames
            /\ pc = "exit" /\ raised = Raises("stage_newsfile")
       /\ \A i \in DOMAIN calls :
            calls[i].fn \in {"should_remove_fragment_files", "remove_files"} =>
               \E j \in 1..(i - 1) :
                  calls[j].fn = "stage_newsfile" /\ calls[j].result = "ok"

C19_Witness ==
    /\ caller = "cli" /\ pc = "exit" /\ Failed("stage_newsfile")
    /\ answer_yes = True /\ Len(disk_fragments) = MaxFiles
    /\ newsfile # <<>>

====
